---- MODULE Spec2Model ----
(***************************************************************************)
(* Equipment inventory: CSV consolidation, initial import and periodic     *)
(* reconciliation against the persisted equipment table.                   *)
(*                                                                         *)
(* The repository holds two revisions of the server and of the import      *)
(* screens:                                                                *)
(*   revision "A": src/inventario-api/server.js,                           *)
(*                 src/components/DataConsolidation.tsx,                   *)
(*                 src/unnamed/part_000 (PeriodicAbsoluteUpdate)           *)
(*   revision "B": src/unnamed/part_003 (server.js, Settings,              *)
(*                 DataConsolidation, PeriodicAbsoluteUpdate)              *)
(* A deployment runs one of them; the variable rev fixes which.            *)
(*                                                                         *)
(* Strings are sequences of one-character strings, so that toUpperCase,    *)
(* trim and the removal of spaces are computed.  A JavaScript / SQL value  *)
(* is a record [k, s]: k = "str" with the text s, k = "null" (null, SQL    *)
(* NULL) or k = "undef" (undefined: the key is absent from the object).    *)
(***************************************************************************)
EXTENDS Integers, Sequences, FiniteSets, TLC

VARIABLES
    rev,        \* which revision of the code is deployed
    equipment,  \* rows of table equipment
    history,    \* rows of table equipment_history
    config,     \* the two app_config rows the import flows write
    nextId,     \* AUTO_INCREMENT of equipment
    nextHid,    \* AUTO_INCREMENT of equipment_history
    clock,      \* number of requests served; new Date() of the next one
    last,       \* the last request served and the state it started from
    consolidatedData,  \* state of the DataConsolidation component: the preview
    arg,        \* the argument of a pure function under study
    result,     \* what the function returned for arg
    screen,     \* state of the DataConsolidation component: error, isLoading
    baseFile,   \* state of the DataConsolidation component: the base sheet chosen
    absoluteFile,  \* state of the DataConsolidation component: the report chosen
    calls       \* the requests in progress on connections of their own

vars == <<rev, equipment, history, config, nextId, nextHid, clock, last,
          consolidatedData, arg, result, screen, baseFile, absoluteFile, calls>>

\* ------------------------------------------------------------------ bounds
MaxOps == 2      \* requests served in one behaviour
MaxLen == 3      \* characters of a serial handed to MergeKey
MaxLine == 4     \* characters of a line handed to splitCsvLine
MaxRows == 2     \* lines after the header of a CSV text handed to parseCsv
MaxCell == 3     \* words and separators of a header cell handed to the lookup

\* ------------------------------------------------------------------ values
Str(s) == [k |-> "str", s |-> s]
NULL == [k |-> "null", s |-> <<>>]
UNDEF == [k |-> "undef", s |-> <<>>]

\* String.prototype.toUpperCase on the characters the model uses
UpperChar(c) ==
    CASE c = "a" -> "A"
      [] c = "b" -> "B"
      [] OTHER -> c

ToUpper(s) == [i \in DOMAIN s |-> UpperChar(s[i])]

\* s.replace(/ /g, '')
RemoveSpaces(s) == SelectSeq(s, LAMBDA c : c # " ")

\* the white space String.prototype.trim and \s know of: space, line feed
Newline == "\n"
Whitespace == {" ", Newline}

RECURSIVE TrimLeft(_)
TrimLeft(s) == IF s # <<>> /\ Head(s) \in Whitespace THEN TrimLeft(Tail(s)) ELSE s

RECURSIVE TrimRight(_)
TrimRight(s) ==
    IF s # <<>> /\ s[Len(s)] \in Whitespace THEN TrimRight(SubSeq(s, 1, Len(s) - 1)) ELSE s

\* String.prototype.trim
Trim(s) == TrimRight(TrimLeft(s))

\* the merge key of the consolidation screen: serial.toUpperCase().replace(/ /g, '')
MergeKeyEndsOnly(s) == Trim(ToUpper(s))

MergeKey(s) == RemoveSpaces(ToUpper(s))

\* JavaScript truthiness of a value that is a string, null or undefined
Truthy(v) == v.k = "str" /\ v.s # <<>>

\* String(v || '')
StrOrEmpty(v) == IF Truthy(v) THEN v.s ELSE <<>>

\* what the driver stores for a JavaScript value: undefined is written as NULL
DbVal(v) == IF v = UNDEF THEN NULL ELSE v

\* SQL  a = b  on a VARCHAR column under MySQL's default (case-insensitive)
\* collation; spaces inside the text are significant
SqlEq(a, b) == ToUpper(a) = ToUpper(b)

\* ------------------------------------------------------------------ domains
\* serials that differ in letter case only, in a space, or altogether
SerialLower == <<"a", "1">>
SerialUpper == <<"A", "1">>
SerialSpaced == <<"A", " ", "1">>
SerialOther == <<"B", "2">>

Protected == {"Manutenção", "Descartado", "Perdido", "Doado"}
Statuses == {"Em Uso", "Estoque", "Manutenção"}
\* column status holding SQL NULL
NoStatus == "NULL"

\* values of usuarioAtual: empty, blank, a name
Users == { Str(<<>>), Str(<<" ">>), Str(<<"b">>) }

\* a record of an equipmentList as the import screens send it: a key the
\* CSV did not carry is absent (UNDEF)
Items ==
    [ serial : {SerialLower, SerialUpper, SerialSpaced},
      equipamento : {UNDEF, Str(<<"p">>)},
      usuarioAtual : {UNDEF} \cup Users ]

\* the lists that hold two records: the first record, and the records
\* that follow it
FirstOfPair ==
    [serial |-> SerialUpper, equipamento |-> Str(<<"p">>), usuarioAtual |-> Str(<<>>)]

PairItems ==
    [ serial : {SerialLower, SerialUpper},
      equipamento : {Str(<<"p">>)},
      usuarioAtual : {Str(<<>>), Str(<<"b">>)} ]

Lists == { <<i>> : i \in Items } \cup { <<FirstOfPair, j>> : j \in PairItems }

\* the lists the consolidation screen sends to the import: its records
\* carry a status, or none
ImportItems ==
    [ serial : {SerialUpper, SerialSpaced},
      equipamento : {UNDEF, Str(<<"p">>)},
      usuarioAtual : {Str(<<>>), Str(<<"b">>)},
      status : {NoStatus, "Em Uso", "Estoque"} ]

ImportPairItems ==
    [ serial : {SerialUpper, SerialLower, SerialOther},
      equipamento : {Str(<<"p">>)},
      usuarioAtual : {Str(<<>>)},
      status : {"Estoque"} ]

ImportLists ==
    { <<i>> : i \in ImportItems } \cup { <<i, j>> : i \in ImportPairItems, j \in ImportPairItems }

\* the rows POST /api/equipment is asked to create
NewRows ==
    [ serial : {SerialLower, SerialSpaced, SerialOther},
      equipamento : {Str(<<"q">>)},
      usuarioAtual : {NULL, Str(<<"b">>)},
      status : Statuses ]

\* users.id of the account the migrations create
FirstUser == 1

\* column created_by_id holding SQL NULL
NoUser == 0

\* users.id of the administrator who issues the requests: an account
\* created after the first one
ActingUser == 2
Admins == {ActingUser}

NoRequest ==
    [ op |-> "none", ok |-> TRUE, list |-> <<>>, repeat |-> FALSE, username |-> ActingUser,
      fault |-> FALSE,
      nUpdates |-> 0, nInserts |-> 0, planned |-> 0,
      equipment |-> {}, history |-> {}, config |-> [flag |-> "false", ts |-> 0] ]

\* the screen before any handler ran.  raised and parsed describe the last
\* run of handleConsolidate: whether it called setIsLoading(true) and how
\* many times it called parseCsv
NoScreen == [error |-> "none", isLoading |-> FALSE, raised |-> FALSE, parsed |-> 0]

\* no file chosen in a file input
NoFile == [present |-> FALSE, text |-> <<>>]

\* the two clients whose requests can be in progress at the same time
Callers == {1, 2}

\* a connection with no request in progress.  pc: idle, read (the request
\* has run its first SELECT) or done; input: what the request carries;
\* snap: the rows its SELECT returned; before: the table as its writes
\* found it; ok: whether it answered with success
Idle == [pc |-> "idle", op |-> "none", input |-> <<>>, snap |-> {}, before |-> {}, ok |-> FALSE]

NoCalls == [c \in Callers |-> Idle]

\* the state after the migrations ran on an empty database
Init ==
    /\ rev \in {"A", "B"}
    /\ equipment = {}
    /\ history = {}
    /\ config = [flag |-> "false", ts |-> 0]
    /\ nextId = 1
    /\ nextHid = 1
    /\ clock = 0
    /\ last = NoRequest
    /\ consolidatedData = <<>>
    /\ arg = <<>>
    /\ result = <<>>
    /\ screen = NoScreen
    /\ baseFile = NoFile
    /\ absoluteFile = NoFile
    /\ calls = NoCalls

\* ------------------------------------------------------------------ helpers
\* the request record kept in last: the operation, its input, its outcome
\* and the persisted state it started from
Request(op, ok, list, nUpdates, nInserts, planned) ==
    [ op |-> op, ok |-> ok, list |-> list, username |-> ActingUser, fault |-> FALSE,
      repeat |-> (last.op = op /\ last.ok /\ last.list = list),
      nUpdates |-> nUpdates, nInserts |-> nInserts, planned |-> planned,
      equipment |-> equipment, history |-> history, config |-> config ]

\* a status as a history value
StatusVal(st) == IF st = NoStatus THEN NULL ELSE Str(<<st>>)

\* the columns the periodic update compares, in the order the loop visits them
FieldOrder == <<"equipamento", "usuarioAtual">>

Hist(eid, type, from, to) ==
    [equipment_id |-> eid, changeType |-> type, from_value |-> from, to_value |-> to]

\* a history table that keeps the entries of the last write only
StoreHistoryOverwriting(rows, hid, entries) ==
    { [ id |-> hid + i - 1,
        equipment_id |-> entries[i].equipment_id,
        changeType |-> entries[i].changeType,
        from_value |-> DbVal(entries[i].from_value),
        to_value |-> DbVal(entries[i].to_value) ] : i \in 1..Len(entries) }

\* INSERT of a sequence of history entries: ids are given in sequence order
RECURSIVE StoreHistory(_, _, _)
StoreHistory(rows, hid, entries) ==
    IF entries = <<>> THEN rows
    ELSE StoreHistory(
            rows \cup { [ id |-> hid,
                          equipment_id |-> Head(entries).equipment_id,
                          changeType |-> Head(entries).changeType,
                          from_value |-> DbVal(Head(entries).from_value),
                          to_value |-> DbVal(Head(entries).to_value) ] },
            hid + 1, Tail(entries))

\* an equipment table without the UNIQUE index on serial
SerialNeverTaken(rows, s) == FALSE

\* UNIQUE(serial) of table equipment
SerialTaken(rows, s) == \E r \in rows : SqlEq(r.serial, s)

\* ------------------------------------------------------------ POST /api/equipment
\* the serial check rejects a serial that is already stored; otherwise one
\* row is inserted with the values of the request
AddEquipment ==
    /\ clock < MaxOps
    /\ \E new \in NewRows :
         LET dup == SerialTaken(equipment, new.serial) IN
         /\ equipment' =
              IF dup THEN equipment
              ELSE equipment \cup
                     { [ id |-> nextId, serial |-> new.serial,
                         equipamento |-> new.equipamento,
                         usuarioAtual |-> new.usuarioAtual, status |-> new.status,
                         approval_status |-> "approved", created_by_id |-> ActingUser ] }
         /\ nextId' = IF dup THEN nextId ELSE nextId + 1
         /\ last' = Request("add", ~dup, <<>>, 0, IF dup THEN 0 ELSE 1, 0)
    /\ clock' = clock + 1
    /\ UNCHANGED <<rev, baseFile, absoluteFile, calls, history, config, nextHid, consolidatedData, arg, result, screen>>

\* ---------------------------------- POST /api/equipment/periodic-update, revision A
\* existingEquipmentMap.get(item.serial.toUpperCase()): the map is keyed by
\* e.serial.toUpperCase()
ExistingAnyRow(rows, s) == rows

ExistingA(rows, s) == { r \in rows : ToUpper(r.serial) = ToUpper(s) }

\* existing[key]: the snapshot selects id, serial, usuarioAtual and status only
ExistingFieldA(r, key) == IF key = "usuarioAtual" THEN r.usuarioAtual ELSE UNDEF

NewStatusA(item) ==
    IF Trim(StrOrEmpty(item.usuarioAtual)) # <<>> THEN "Em Uso" ELSE "Estoque"

\* item[key] !== existing[key]
DiffersA(new, old) == new # old

\* Object.keys(item) without serial, kept in FieldOrder, that differ from the snapshot
ChangedKeysA(item, r) ==
    SelectSeq(FieldOrder,
              LAMBDA key : item[key] # UNDEF /\ DiffersA(item[key], ExistingFieldA(r, key)))

\* the history entries the loop pushes for a matched record
HistoryForA(item, r) ==
    LET keys == ChangedKeysA(item, r)
        fieldEntries ==
            [ i \in 1..Len(keys) |->
                Hist(r.id, keys[i], ExistingFieldA(r, keys[i]), item[keys[i]]) ]
    IN  IF NewStatusA(item) # r.status /\ keys = <<>>
        THEN <<Hist(r.id, "status", StatusVal(r.status), StatusVal(NewStatusA(item)))>>
        ELSE fieldEntries

\* UPDATE equipment SET updates WHERE id = existing.id
UpdatedRowA(item, r, row) ==
    [ row EXCEPT
        !.equipamento = IF item.equipamento # UNDEF
                           /\ DiffersA(item.equipamento, ExistingFieldA(r, "equipamento"))
                        THEN item.equipamento ELSE @,
        !.usuarioAtual = IF item.usuarioAtual # UNDEF
                            /\ DiffersA(item.usuarioAtual, ExistingFieldA(r, "usuarioAtual"))
                         THEN item.usuarioAtual ELSE @,
        !.status = IF NewStatusA(item) # r.status THEN NewStatusA(item) ELSE @ ]

HasChangesA(item, r) == ChangedKeysA(item, r) # <<>> \/ NewStatusA(item) # r.status

\* One pass of the for loop and of the queries it queues, in order.
\* Every record is diffed against the snapshot read at the start; the
\* queries run on the connection in the order they were issued.
\* acc: eq the table inside the transaction, nid the id counter, err a
\* failed query, nU / nI the updates and inserts issued, hU the history
\* entries pushed by the loop, hC those pushed after each insert.
RECURSIVE RunA(_, _, _)
RunA(list, snap, acc) ==
    IF list = <<>> \/ acc.err THEN acc
    ELSE
      LET item == Head(list)
          found == ExistingA(snap, item.serial)
      IN  IF found # {}
          THEN LET r == CHOOSE x \in found : TRUE IN
               IF HasChangesA(item, r)
               THEN RunA(Tail(list), snap,
                      [ acc EXCEPT
                          !.eq = { IF row.id = r.id THEN UpdatedRowA(item, r, row) ELSE row
                                   : row \in acc.eq },
                          !.nU = @ + 1,
                          !.hU = @ \o HistoryForA(item, r) ])
               ELSE RunA(Tail(list), snap, acc)
          ELSE \* INSERT INTO equipment SET {...item, status, approval_status, created_by_id}
               IF item.equipamento = UNDEF \/ SerialTaken(acc.eq, item.serial)
               THEN [acc EXCEPT !.err = TRUE]
               ELSE RunA(Tail(list), snap,
                      [ acc EXCEPT
                          !.eq = @ \cup
                                 { [ id |-> acc.nid, serial |-> item.serial,
                                     equipamento |-> item.equipamento,
                                     usuarioAtual |-> DbVal(item.usuarioAtual),
                                     status |-> NewStatusA(item),
                                     approval_status |-> "approved",
                                     created_by_id |-> FirstUser ] },
                          !.nid = @ + 1,
                          !.nI = @ + 1,
                          !.hC = Append(@, Hist(acc.nid, "CREATE", NULL, item.equipamento)) ])

PeriodicUpdateA ==
    /\ rev = "A"
    /\ clock < MaxOps
    /\ \E list \in Lists, username \in Admins, dbError \in BOOLEAN :
         LET run == RunA(list, equipment,
                         [ eq |-> equipment, nid |-> nextId, err |-> FALSE,
                           nU |-> 0, nI |-> 0, hU |-> <<>>, hC |-> <<>> ])
             entries == run.hU \o run.hC
             ok == ~run.err /\ ~dbError
         IN  /\ equipment' = IF ok THEN run.eq ELSE equipment
             /\ nextId' = IF ok THEN run.nid ELSE nextId
             /\ history' = IF ok THEN StoreHistory(history, nextHid, entries) ELSE history
             /\ nextHid' = IF ok THEN nextHid + Len(entries) ELSE nextHid
             /\ config' = IF ok THEN [config EXCEPT !.ts = clock + 1] ELSE config
             /\ last' = [ Request("periodic", ok, list, run.nU, run.nI, Len(entries))
                          EXCEPT !.username = username, !.fault = dbError ]
    /\ clock' = clock + 1
    /\ UNCHANGED <<rev, baseFile, absoluteFile, calls, consolidatedData, arg, result, screen>>

\* ---------------------------------- POST /api/equipment/periodic-update, revision B
\* SELECT * FROM equipment WHERE serial = ?
ExistingB(rows, s) == { r \in rows : SqlEq(r.serial, s) }

\* newStatus: the stored status (or Estoque for a new record) unless
\* usuarioAtual decides it
NewStatusB(item, found) ==
    LET u == item.usuarioAtual
        start == IF found # {} THEN (CHOOSE x \in found : TRUE).status ELSE "Estoque"
    IN  IF Truthy(u) /\ Trim(u.s) # <<>> THEN "Em Uso"
        ELSE IF u = Str(<<>>) \/ u = NULL THEN "Estoque"
        ELSE start

\* String(oldValue || '') !== String(newValue || '')
DiffersB(new, old) == StrOrEmpty(old) # StrOrEmpty(new)

\* the fields of fieldsToUpdate that go into updateFields
ChangedKeysB(item, r) ==
    SelectSeq(FieldOrder, LAMBDA key : DiffersB(item[key], r[key]))

\* changes: the status change first, then one entry per field of updateFields
ChangesB(item, r, newStatus) ==
    LET keys == ChangedKeysB(item, r) IN
    (IF r.status # newStatus
     THEN <<Hist(r.id, "status", StatusVal(r.status), StatusVal(newStatus))>>
     ELSE <<>>)
    \o [ i \in 1..Len(keys) |->
           Hist(r.id, keys[i], Str(StrOrEmpty(r[keys[i]])), Str(StrOrEmpty(item[keys[i]]))) ]

\* UPDATE equipment SET ?, status = ? WHERE id = ?  fails when updateFields
\* is empty (the statement reads SET , status = ...) and when it sets the
\* NOT NULL column equipamento to NULL
UpdateFailsB(item, r) ==
    LET keys == ChangedKeysB(item, r) IN
    \/ keys = <<>>
    \/ (\E i \in 1..Len(keys) : keys[i] = "equipamento") /\ DbVal(item.equipamento) = NULL

UpdatedRowB(item, r, newStatus) ==
    [ r EXCEPT
        !.equipamento = IF DiffersB(item.equipamento, r.equipamento)
                        THEN DbVal(item.equipamento) ELSE @,
        !.usuarioAtual = IF DiffersB(item.usuarioAtual, r.usuarioAtual)
                         THEN DbVal(item.usuarioAtual) ELSE @,
        !.status = newStatus ]

\* a recordHistory without its transaction: the rows written before the
\* failing INSERT stay
RecordHistoryNoRollback(acc, entries, histDown) ==
    IF entries = <<>> THEN acc
    ELSE IF histDown
         THEN [ acc EXCEPT !.hist = StoreHistory(@, acc.hid, <<Head(entries)>>),
                           !.hid = @ + 1 ]
         ELSE [ acc EXCEPT !.hist = StoreHistory(@, acc.hid, entries),
                           !.hid = @ + Len(entries) ]

\* recordHistory writes on a connection of its own and commits there, apart
\* from the transaction of the request.  It swallows a failure.
\* histDown: its INSERT fails.  Inside the periodic update the parent row
\* is locked by the transaction of the request, not yet committed, and the
\* foreign key check of equipment_history has to wait for that lock; it
\* ends in a lock wait timeout where the engine enforces the check.
RecordHistory(acc, entries, histDown) ==
    IF entries = <<>> \/ histDown
    THEN acc
    ELSE [ acc EXCEPT !.hist = StoreHistory(@, acc.hid, entries),
                      !.hid = @ + Len(entries) ]

\* One pass of the for loop.  The statements run one after the other
\* inside the transaction, so a record sees the writes of the records
\* before it.  acc.hist and acc.hid are committed by recordHistory at once.
RECURSIVE RunB(_, _, _, _)
RunB(list, username, histDown, acc) ==
    IF list = <<>> \/ acc.err THEN acc
    ELSE
      LET item == Head(list)
          found == ExistingB(acc.eq, item.serial)
          newStatus == NewStatusB(item, found)
      IN  IF found # {}
          THEN LET r == CHOOSE x \in found : TRUE
                   changes == ChangesB(item, r, newStatus)
               IN  IF changes = <<>>
                   THEN RunB(Tail(list), username, histDown, acc)
                   ELSE IF UpdateFailsB(item, r)
                   THEN [acc EXCEPT !.err = TRUE, !.planned = @ + Len(changes)]
                   ELSE RunB(Tail(list), username, histDown,
                          RecordHistory(
                            [ acc EXCEPT
                                !.eq = { IF row.id = r.id
                                         THEN UpdatedRowB(item, r, newStatus) ELSE row
                                         : row \in acc.eq },
                                !.nU = @ + 1,
                                !.planned = @ + Len(changes) ],
                            changes, histDown))
          ELSE IF item.equipamento = UNDEF
               THEN [acc EXCEPT !.err = TRUE]
               ELSE RunB(Tail(list), username, histDown,
                      RecordHistory(
                        [ acc EXCEPT
                            !.eq = @ \cup
                                   { [ id |-> acc.nid, serial |-> item.serial,
                                       equipamento |-> item.equipamento,
                                       usuarioAtual |-> DbVal(item.usuarioAtual),
                                       status |-> newStatus,
                                       approval_status |-> "approved",
                                       created_by_id |-> username ] },
                            !.nid = @ + 1,
                            !.nI = @ + 1,
                            !.planned = @ + 1 ],
                        <<Hist(acc.nid, "initial_import", Str(<<"N/A">>),
                               Str(<<"Imported via periodic update">>))>>,
                        histDown))

\* markerFails: the write of lastAbsoluteUpdateTimestamp throws
PeriodicUpdateB ==
    /\ rev = "B"
    /\ clock < MaxOps
    /\ \E list \in Lists, username \in Admins, histDown \in BOOLEAN, markerFails \in BOOLEAN :
         LET run == RunB(list, username, histDown,
                         [ eq |-> equipment, nid |-> nextId, err |-> FALSE,
                           nU |-> 0, nI |-> 0, planned |-> 0,
                           hist |-> history, hid |-> nextHid ])
             ok == ~run.err /\ ~markerFails
         IN  /\ equipment' = IF ok THEN run.eq ELSE equipment
             /\ nextId' = IF ok THEN run.nid ELSE nextId
             /\ history' = run.hist
             /\ nextHid' = run.hid
             /\ config' = IF ok THEN [config EXCEPT !.ts = clock + 1] ELSE config
             /\ last' = [ Request("periodic", ok, list, run.nU, run.nI, run.planned)
                          EXCEPT !.username = username, !.fault = markerFails ]
    /\ clock' = clock + 1
    /\ UNCHANGED <<rev, baseFile, absoluteFile, calls, consolidatedData, arg, result, screen>>

\* ------------------------------------------------------ POST /api/equipment/import
\* the INSERTs of the for loop, each committed as it runs; the loop stops
\* at the first INSERT that fails (equipamento is NOT NULL, serial is UNIQUE)
RECURSIVE InsertAll(_, _)
InsertAll(list, acc) ==
    IF list = <<>> \/ acc.err THEN acc
    ELSE LET item == Head(list) IN
         IF item.equipamento = UNDEF \/ SerialTaken(acc.eq, item.serial)
         THEN [acc EXCEPT !.err = TRUE]
         ELSE InsertAll(Tail(list),
                [ acc EXCEPT
                    !.eq = @ \cup
                           { [ id |-> acc.nid, serial |-> item.serial,
                               equipamento |-> item.equipamento,
                               usuarioAtual |-> DbVal(item.usuarioAtual),
                               status |-> item.status,
                               approval_status |-> "approved",
                               created_by_id |-> IF rev = "A" THEN FirstUser ELSE NoUser ] },
                    !.nid = @ + 1 ])

\* ALTER TABLE equipment AUTO_INCREMENT = 1 is a DDL statement: MySQL
\* commits the open transaction when it runs.  The two DELETEs before it
\* are committed there, every later statement is committed on its own, and
\* the rollback of the catch block finds nothing to undo.
\* failAt: the statement that throws: a DELETE, the write of
\* lastAbsoluteUpdateTimestamp, the write of hasInitialConsolidationRun.
ImportRequest(list, failAt) ==
    LET run == InsertAll(list, [eq |-> {}, nid |-> 1, err |-> FALSE])
        wroteTs == failAt \notin {"delete", "timestamp"} /\ ~run.err
        ok == failAt = "none" /\ ~run.err
    IN  IF failAt = "delete"
        THEN /\ last' = Request("import", FALSE, list, 0, 0, 0)
             /\ UNCHANGED <<equipment, history, config, nextId>>
        ELSE /\ equipment' = run.eq
             /\ history' = {}
             /\ nextId' = run.nid
             /\ config' = [ flag |-> IF ok THEN "true" ELSE config.flag,
                            ts |-> IF wroteTs THEN clock + 1 ELSE config.ts ]
             /\ last' = Request("import", ok, list, 0, Cardinality(run.eq), 0)

ImportEquipment ==
    /\ clock < MaxOps
    /\ \E list \in ImportLists, failAt \in {"none", "delete", "timestamp", "flag"} :
         ImportRequest(list, failAt)
    /\ clock' = clock + 1
    /\ UNCHANGED <<rev, baseFile, absoluteFile, calls, nextHid, consolidatedData, arg, result, screen>>

\* ------------------------------------------------- PUT /api/equipment/:id, revision A
\* the equipment object of the edit form: every column, serial and
\* equipamento as stored
PutChoices == [usuarioAtual : {NULL, Str(<<>>), Str(<<"b">>)}, status : Statuses]

\* original[key] !== equipment[key]
PutDiffersA(new, old) == new # old

\* original[key] ? String(original[key]) : null
StringOrNull(v) == IF Truthy(v) THEN v ELSE NULL

PutChangesA(r, e) ==
    (IF PutDiffersA(e.usuarioAtual, r.usuarioAtual)
     THEN <<Hist(r.id, "usuarioAtual", StringOrNull(r.usuarioAtual), StringOrNull(e.usuarioAtual))>>
     ELSE <<>>)
    \o (IF e.status # r.status
        THEN <<Hist(r.id, "status", StatusVal(r.status), StatusVal(e.status))>>
        ELSE <<>>)

UpdateEquipmentA ==
    /\ rev = "A"
    /\ clock < MaxOps
    /\ \E r \in equipment, e \in PutChoices :
         LET changes == PutChangesA(r, e) IN
         /\ equipment' = (equipment \ {r}) \cup
                         {[r EXCEPT !.usuarioAtual = e.usuarioAtual, !.status = e.status]}
         /\ history' = StoreHistory(history, nextHid, changes)
         /\ nextHid' = nextHid + Len(changes)
         /\ last' = Request("put", TRUE, <<>>, 1, 0, Len(changes))
    /\ clock' = clock + 1
    /\ UNCHANGED <<rev, baseFile, absoluteFile, calls, config, nextId, consolidatedData, arg, result, screen>>

\* ------------------------------------------------- PUT /api/equipment/:id, revision B
PutChangesB(r, e) ==
    (IF DiffersB(e.usuarioAtual, r.usuarioAtual)
     THEN <<Hist(r.id, "usuarioAtual", r.usuarioAtual, e.usuarioAtual)>>
     ELSE <<>>)
    \o (IF e.status # r.status
        THEN <<Hist(r.id, "status", StatusVal(r.status), StatusVal(e.status))>>
        ELSE <<>>)

UpdateEquipmentB ==
    /\ rev = "B"
    /\ clock < MaxOps
    /\ \E r \in equipment, e \in PutChoices, histDown \in BOOLEAN :
         LET changes == PutChangesB(r, e)
             rec == RecordHistory([hist |-> history, hid |-> nextHid], changes, histDown)
         IN  /\ equipment' = (equipment \ {r}) \cup
                             {[r EXCEPT !.usuarioAtual = e.usuarioAtual, !.status = e.status]}
             /\ history' = rec.hist
             /\ nextHid' = rec.hid
             /\ last' = Request("put", TRUE, <<>>, 1, 0, Len(changes))
    /\ clock' = clock + 1
    /\ UNCHANGED <<rev, baseFile, absoluteFile, calls, config, nextId, consolidatedData, arg, result, screen>>

\* --------------------------------------------------- DELETE /api/equipment/:id
\* the history rows left when equipment id goes: revision A deletes them in
\* the transaction of the request, revision B leaves it to ON DELETE CASCADE
CascadeDelete(rows, id) == { h \in rows : h.equipment_id # id }

\* 404 when no row has the id; dbError: a statement of the request fails and
\* nothing is deleted
DeleteEquipment ==
    /\ clock < MaxOps
    /\ \E id \in 1..nextId, dbError \in BOOLEAN :
         LET found == { r \in equipment : r.id = id }
             ok == found # {} /\ ~dbError
         IN  /\ equipment' = IF ok THEN equipment \ found ELSE equipment
             /\ history' = IF ok THEN CascadeDelete(history, id) ELSE history
             /\ last' = [Request("delete", ok, <<>>, 0, 0, 0) EXCEPT !.fault = dbError]
    /\ clock' = clock + 1
    /\ UNCHANGED <<rev, baseFile, absoluteFile, calls, config, nextId, nextHid,
                   consolidatedData, arg, result, screen>>

\* --------------------------------------------------------------- POST /api/settings
\* every key of the posted settings object is written to app_config; the
\* settings screen posts back the object it loaded, hasInitialConsolidationRun
\* included
SaveSettings ==
    /\ rev = "A"
    /\ clock < MaxOps
    /\ \E flag \in {"unset", "true", "false"} :
         /\ config' = [config EXCEPT !.flag = IF flag = "unset" THEN @ ELSE flag]
         /\ last' = Request("settings", TRUE, <<>>, 0, 0, 0)
    /\ clock' = clock + 1
    /\ UNCHANGED <<rev, baseFile, absoluteFile, calls, equipment, history, nextId, nextHid, consolidatedData, arg, result, screen>>

\* --------------------------------------------------------- POST /api/database/clear
\* TRUNCATE of every table but migrations and users: app_config is emptied
ClearDatabase ==
    /\ rev = "A"
    /\ clock < MaxOps
    /\ equipment' = {}
    /\ history' = {}
    /\ config' = [flag |-> "absent", ts |-> 0]
    /\ nextId' = 1
    /\ nextHid' = 1
    /\ last' = Request("clear", TRUE, <<>>, 0, 0, 0)
    /\ clock' = clock + 1
    /\ UNCHANGED <<rev, baseFile, absoluteFile, calls, consolidatedData, arg, result, screen>>

\* ------------------------------------------------------------- pure functions
\* every string of at most n characters of the alphabet
StringsUpTo(alphabet, n) == UNION { [1..k -> alphabet] : k \in 0..n }

\* a function under study starts from an argument and nothing else
PureInit(inputs) ==
    /\ rev \in {"A", "B"}
    /\ equipment = {}
    /\ history = {}
    /\ config = [flag |-> "false", ts |-> 0]
    /\ nextId = 1
    /\ nextHid = 1
    /\ clock = 0
    /\ last = NoRequest
    /\ consolidatedData = <<>>
    /\ arg \in inputs
    /\ result = <<>>
    /\ screen = NoScreen
    /\ baseFile = NoFile
    /\ absoluteFile = NoFile
    /\ calls = NoCalls

\* one call of the function: result holds what it returned
AppliedTo(name, input, value) ==
    /\ clock = 0
    /\ result' = value
    /\ last' = [NoRequest EXCEPT !.op = name, !.list = input]
    /\ clock' = 1
    /\ UNCHANGED <<rev, baseFile, absoluteFile, calls, equipment, history, config, nextId, nextHid, consolidatedData, arg, screen>>

\* one call of a function of one argument
Applied(name, value) == AppliedTo(name, <<>>, value)

\* serials handed to the merge key: letters in both cases, a digit, spaces
SerialStrings == StringsUpTo({"a", "A", " ", "1"}, MaxLen)

ComputeMergeKey == Applied("mergeKey", MergeKey(arg))

MergeKeySpec == PureInit(SerialStrings) /\ [][ComputeMergeKey]_vars

\* C15: the merge key of a serial is also the merge key of the serial in
\* upper case, of the serial without its spaces, and of the merge key itself.
MergeKeyStable ==
    last.op = "mergeKey" =>
        /\ result = MergeKey(arg)
        /\ MergeKey(ToUpper(arg)) = result
        /\ MergeKey(RemoveSpaces(arg)) = result
        /\ MergeKey(result) = result

\* C15 witness: the key of a serial with a lower-case letter and a space
MergeKeyStableWitness ==
    /\ last.op = "mergeKey"
    /\ arg = <<"a", " ", "1">>
    /\ result = <<"A", "1">>

\* ------------------------------------------------------------------ splitCsvLine
Quote == "\""

\* .replace(/^"|"$/g, ''): a quote at the start and a quote at the end go
StripQuotes(s) ==
    LET noFirst == IF s # <<>> /\ Head(s) = Quote THEN Tail(s) ELSE s
    IN  IF noFirst # <<>> /\ noFirst[Len(noFirst)] = Quote
        THEN SubSeq(noFirst, 1, Len(noFirst) - 1)
        ELSE noFirst

\* current.trim().replace(/^"|"$/g, '')
FieldOf(current) == StripQuotes(Trim(current))

\* the for loop over the characters of the line, then the last push
RECURSIVE SplitLoop(_, _, _, _)
SplitLoop(line, current, inQuote, fields) ==
    IF line = <<>> THEN Append(fields, FieldOf(current))
    ELSE LET char == Head(line) IN
         IF char = Quote
         THEN SplitLoop(Tail(line), current, ~inQuote, fields)
         ELSE IF char = "," /\ ~inQuote
         THEN SplitLoop(Tail(line), <<>>, inQuote, Append(fields, FieldOf(current)))
         ELSE SplitLoop(Tail(line), Append(current, char), inQuote, fields)

SplitAtEveryComma(line) ==
    SplitLoop(SelectSeq(line, LAMBDA c : c # Quote), <<>>, FALSE, <<>>)

SplitCsvLine(line) == SplitLoop(line, <<>>, FALSE, <<>>)

\* the line a,"b,c",d
QuotedCommaLine == <<"a", ",", Quote, "b", ",", "c", Quote, ",", "d">>

CsvLines == StringsUpTo({"a", ",", Quote, " "}, MaxLine) \cup {QuotedCommaLine}

SplitLine == Applied("splitCsvLine", SplitCsvLine(arg))

SplitSpec == PureInit(CsvLines) /\ [][SplitLine]_vars

\* the commas of the line that stand outside a quoted section: those with
\* an even number of quotes before them
UnquotedCommas(line) ==
    { i \in DOMAIN line :
        line[i] = "," /\ Cardinality({ j \in 1..(i - 1) : line[j] = Quote }) % 2 = 0 }

\* C14: splitCsvLine returns one field more than the line has commas outside
\* quoted sections, and a,"b,c",d gives the fields a / b,c / d.
SplitFieldCount ==
    last.op = "splitCsvLine" =>
        /\ Len(result) = Cardinality(UnquotedCommas(arg)) + 1
        /\ arg = QuotedCommaLine => result = << <<"a">>, <<"b", ",", "c">>, <<"d">> >>

\* C14 witness: a line with a comma inside quotes and commas outside them
SplitFieldCountWitness ==
    /\ last.op = "splitCsvLine"
    /\ arg = QuotedCommaLine
    /\ Len(result) = 3

\* ---------------------------------------------------------------------- parseCsv
\* A CSV text is a sequence of characters.  A word that the parser never
\* looks into (a column name without its spaces, a status, a name) is kept
\* as one element of the sequence.

\* fileText.split(/\r\n|\n/)
RECURSIVE SplitLines(_, _)
SplitLines(text, current) ==
    IF text = <<>> THEN <<current>>
    ELSE IF Head(text) = Newline THEN <<current>> \o SplitLines(Tail(text), <<>>)
    ELSE SplitLines(Tail(text), Append(current, Head(text)))

\* .replace(/[\s/]+/g, '')
RemoveSpaceSlash(s) == SelectSeq(s, LAMBDA c : c \notin Whitespace \cup {"/"})

\* the column names that map to the fields the model keeps
BaseMappingsA ==
    <<"SERIAL">> :> "serial" @@ <<"USUÁRIO", " ", "ATUAL">> :> "usuarioAtual"
        @@ <<"STATUS">> :> "status" @@ <<"EQUIPAMENTO">> :> "equipamento"
        @@ <<"EMAIL", " ", "COLABORADOR">> :> "emailColaborador"

AbsoluteMappingsA ==
    <<"NÚMERO", "DE", "SÉRIE">> :> "serial"
        @@ <<"NOME", "DO", "USUÁRIO", "ATUAL">> :> "usuarioAtual"
        @@ <<"NOME", "DO", "DISPOSITIVO">> :> "equipamento"
        @@ <<"EMAIL", " ", "DO", " ", "COLABORADOR">> :> "emailColaborador"

BaseMappingsB ==
    <<"SERIAL">> :> "serial" @@ <<"USUARIO", "ATUAL">> :> "usuarioAtual"
        @@ <<"STATUS">> :> "status" @@ <<"EQUIPAMENTO">> :> "equipamento"
        @@ <<"EMAIL", "COLABORADOR">> :> "emailColaborador"

AbsoluteMappingsB ==
    <<"NUMERO", "DE", "SERIE">> :> "serial"
        @@ <<"NOME", "DO", "USUARIO", "ATUAL">> :> "usuarioAtual"
        @@ <<"NOME", "DO", "DISPOSITIVO">> :> "equipamento"
        @@ <<"EMAIL", "DO", "COLABORADOR">> :> "emailColaborador"

Mappings(kind) ==
    IF rev = "A"
    THEN (IF kind = "base" THEN BaseMappingsA ELSE AbsoluteMappingsA)
    ELSE (IF kind = "base" THEN BaseMappingsB ELSE AbsoluteMappingsB)

\* the header line: revision A drops a comma that ends it
HeaderLine(line) ==
    IF rev = "A" /\ line # <<>> /\ line[Len(line)] = ","
    THEN SubSeq(line, 1, Len(line) - 1) ELSE line

\* the column names of the header: trimmed and in upper case; revision B
\* also removes white space and slashes from them
Header(line) ==
    LET cells == SplitCsvLine(HeaderLine(line)) IN
    [ i \in DOMAIN cells |->
        IF rev = "A" THEN ToUpper(Trim(cells[i]))
        ELSE RemoveSpaceSlash(ToUpper(Trim(cells[i]))) ]

\* mappings[normalizedColName] || mappings[colName.toUpperCase()] in
\* revision A, mappings[colName] in revision B; "none" for no mapped key
MappedKey(mappings, colName) ==
    IF rev = "A"
    THEN (IF ToUpper(RemoveSpaceSlash(colName)) \in DOMAIN mappings
          THEN mappings[ToUpper(RemoveSpaceSlash(colName))]
          ELSE IF ToUpper(colName) \in DOMAIN mappings
          THEN mappings[ToUpper(colName)]
          ELSE "none")
    ELSE (IF colName \in DOMAIN mappings THEN mappings[colName] ELSE "none")

NoEntry ==
    [ serial |-> UNDEF, equipamento |-> UNDEF, usuarioAtual |-> UNDEF,
      emailColaborador |-> UNDEF, status |-> UNDEF ]

\* header.forEach: a mapped column with a value in the row sets its field
RECURSIVE FillEntry(_, _, _, _, _)
FillEntry(header, values, mappings, index, entry) ==
    IF index > Len(header) THEN entry
    ELSE LET mappedKey == MappedKey(mappings, header[index]) IN
         FillEntry(header, values, mappings, index + 1,
            IF mappedKey # "none" /\ index <= Len(values)
            THEN [entry EXCEPT ![mappedKey] = Str(Trim(values[index]))]
            ELSE entry)

NeverLacksSerial(entry) == FALSE

\* !entry.serial || entry.serial.trim() === ''
LacksSerial(entry) == ~Truthy(entry.serial) \/ Trim(entry.serial.s) = <<>>

\* rows.map(...).filter(item => item !== null)
RECURSIVE ParseRows(_, _, _)
ParseRows(rows, header, mappings) ==
    IF rows = <<>> THEN <<>>
    ELSE LET row == Head(rows)
             entry == FillEntry(header, SplitCsvLine(row), mappings, 1, NoEntry)
         IN  (IF Trim(row) = <<>> \/ LacksSerial(entry) THEN <<>> ELSE <<entry>>)
             \o ParseRows(Tail(rows), header, mappings)

ParseCsvAnyLength(fileText, kind) ==
    LET lines == SplitLines(Trim(fileText), <<>>) IN
    [ok |-> TRUE, data |-> ParseRows(Tail(lines), Header(lines[1]), Mappings(kind))]

\* parseCsv: ok is FALSE when it throws
ParseCsv(fileText, kind) ==
    LET lines == SplitLines(Trim(fileText), <<>>) IN
    IF Len(lines) < 2 THEN [ok |-> FALSE, data |-> <<>>]
    ELSE [ok |-> TRUE, data |-> ParseRows(Tail(lines), Header(lines[1]), Mappings(kind))]

\* lines joined by line feeds
RECURSIVE JoinWith(_, _)
JoinWith(parts, sep) ==
    IF parts = <<>> THEN <<>>
    ELSE IF Len(parts) = 1 THEN Head(parts)
    ELSE Head(parts) \o <<sep>> \o JoinWith(Tail(parts), sep)

\* header lines: the base sheet with and without the accent, a sheet with
\* no serial column, the Absolute report with and without accents
HeaderBase == <<"SERIAL", ",", "USUÁRIO", " ", "ATUAL", ",", "STATUS">>
HeaderBasePlain == <<"SERIAL", ",", "USUARIO", " ", "ATUAL", ",", "STATUS">>
HeaderNoSerial == <<"STATUS", ",", "USUÁRIO", " ", "ATUAL">>
HeaderAbsolute ==
    <<"NÚMERO", " ", "DE", " ", "SÉRIE", ",", "NOME", " ", "DO", " ", "USUÁRIO", " ", "ATUAL">>
HeaderAbsolutePlain ==
    <<"NUMERO", " ", "DE", " ", "SERIE", ",", "NOME", " ", "DO", " ", "USUARIO", " ", "ATUAL">>

Headers == {HeaderBase, HeaderBasePlain, HeaderNoSerial, HeaderAbsolute, HeaderAbsolutePlain}

\* data lines of one, two or three cells: the first cell stands in the
\* serial column of the headers that have one
SerialCells == { <<"A", "1">>, <<>>, <<" ">> }
UserCells == { <<>>, <<"b">> }
StatusCells == { <<>>, <<"Manutenção">> }

DataLines ==
    { s : s \in SerialCells }
    \cup { JoinWith(<<s, u>>, ",") : s \in SerialCells, u \in UserCells }
    \cup { JoinWith(<<s, u, st>>, ",") : s \in SerialCells, u \in UserCells, st \in StatusCells }

\* a header and up to MaxRows lines after it, and texts of no line at all
CsvTexts ==
    { JoinWith(<<h>> \o rows, Newline) :
        h \in Headers, rows \in UNION { [1..n -> DataLines] : n \in 0..MaxRows } }
    \cup { <<>>, <<" ">> }

ParseText ==
    \E kind \in {"base", "absolute"} : AppliedTo("parseCsv", <<kind>>, ParseCsv(arg, kind))

ParseSpec == PureInit(CsvTexts) /\ [][ParseText]_vars

\* header cells: the words of the column names of the user and of the
\* serial, joined by spaces, slashes or nothing
HeaderWords == {"USUÁRIO", "USUARIO", "ATUAL", "SERIAL", " ", "/"}
HeaderCells == StringsUpTo(HeaderWords, MaxCell)

\* the lookup of one header cell: the field it maps to, or "none"
LookupHeader ==
    \E kind \in {"base", "absolute"} :
        AppliedTo("lookup", <<kind>>, MappedKey(Mappings(kind), Header(arg)[1]))

LookupSpec == PureInit(HeaderCells) /\ [][LookupHeader]_vars

\* the lines of the text after its first line
DataRowsOf(text) == Tail(SplitLines(Trim(text), <<>>))

\* C13: every record the parser returns has a serial that is not empty
\* after trimming, the parser returns no more records than the text has
\* data lines with a non-blank first cell, and none at all for a header
\* without a serial column.
ParsedSerialNonEmpty ==
    (last.op = "parseCsv" /\ result.ok) =>
        /\ \A i \in DOMAIN result.data :
              /\ result.data[i].serial.k = "str"
              /\ Trim(result.data[i].serial.s) # <<>>
        /\ Len(result.data) <=
              Cardinality({ i \in DOMAIN DataRowsOf(arg) :
                              Trim(SplitCsvLine(DataRowsOf(arg)[i])[1]) # <<>> })
        /\ SplitLines(Trim(arg), <<>>)[1] = HeaderNoSerial => result.data = <<>>

\* C13 witness: a text with a line that has a serial and a line that has
\* none; the parser returned the one record
ParsedSerialNonEmptyWitness ==
    /\ last.op = "parseCsv"
    /\ result.ok
    /\ Len(DataRowsOf(arg)) = 2
    /\ Len(result.data) = 1
    /\ result.data[1].serial = Str(<<"A", "1">>)

\* ------------------------------------------------- DataConsolidation.handleConsolidate
\* a file input of the screen with a file chosen, and the text of the file
File(text) == [present |-> TRUE, text |-> text]

\* header lines with the columns the model keeps
BaseColumns ==
    <<"SERIAL", ",", "USUÁRIO", " ", "ATUAL", ",", "STATUS", ",", "EQUIPAMENTO">>
BaseColumnsPlain ==
    <<"SERIAL", ",", "USUARIO", " ", "ATUAL", ",", "STATUS", ",", "EQUIPAMENTO">>
AbsoluteColumns ==
    <<"NÚMERO", " ", "DE", " ", "SÉRIE", ",", "NOME", " ", "DO", " ", "USUÁRIO", " ", "ATUAL",
      ",", "EMAIL", " ", "DO", " ", "COLABORADOR", ",", "NOME", " ", "DO", " ", "DISPOSITIVO">>
AbsoluteColumnsPlain ==
    <<"NUMERO", " ", "DE", " ", "SERIE", ",", "NOME", " ", "DO", " ", "USUARIO", " ", "ATUAL",
      ",", "EMAIL", " ", "DO", " ", "COLABORADOR", ",", "NOME", " ", "DO", " ", "DISPOSITIVO">>

\* data lines of the base sheet: serial, user, status, equipment
BaseInUse == <<"A", "1", ",", "b", ",", ",", "p">>
BaseInRepair == <<"A", "1", ",", ",", "Manutenção", ",", "p">>
BaseSpaced == <<"A", " ", "1", ",", ",", ",", "p">>

\* data lines of the Absolute report: serial, user, e-mail, device name
AbsoluteInUse == <<"a", "1", ",", "b", ",", "e", ",", "q">>
AbsoluteNoUser == <<"a", "1", ",", ",", "e", ",", "q">>
AbsoluteOther == <<"B", "2", ",", ",", ",", "q">>
AbsoluteSerialOnly == <<"a", "1">>

\* the rows of a file: one row, two rows with the same merge key, or none
BaseRowLists ==
    { <<>>, <<BaseInUse>>, <<BaseInRepair>>, <<BaseSpaced>>,
      <<BaseInUse, BaseSpaced>>, <<BaseInUse, BaseInRepair>> }
AbsoluteRowLists ==
    { <<>>, <<AbsoluteInUse>>, <<AbsoluteNoUser>>, <<AbsoluteOther>>,
      <<AbsoluteSerialOnly>>, <<AbsoluteInUse, AbsoluteNoUser>> }

BaseFiles ==
    {NoFile, File(<<>>)} \cup
    { File(JoinWith(<<h>> \o rows, Newline)) :
        h \in {BaseColumns, BaseColumnsPlain}, rows \in BaseRowLists }
AbsoluteFiles ==
    {NoFile} \cup
    { File(JoinWith(<<h>> \o rows, Newline)) :
        h \in {AbsoluteColumns, AbsoluteColumnsPlain}, rows \in AbsoluteRowLists }

\* the status of a parsed record as the plain text the rows of the model
\* carry: NoStatus when the record has no status
StatusText(v) == IF v.k # "str" THEN NoStatus ELSE IF v.s = <<>> THEN "" ELSE v.s[1]

\* a parsed record with its serial and status as the rows carry them
Record(entry) ==
    [ serial |-> entry.serial.s,
      equipamento |-> entry.equipamento,
      usuarioAtual |-> entry.usuarioAtual,
      emailColaborador |-> entry.emailColaborador,
      status |-> StatusText(entry.status) ]

Records(entries) == [ i \in DOMAIN entries |-> Record(entries[i]) ]

SpreadReplace(existingItem, absoluteItem) == absoluteItem

\* { ...existingItem, ...absoluteItem }: a key of the right side wins when
\* the right side has it
Spread(existingItem, absoluteItem) ==
    [ serial |-> absoluteItem.serial,
      equipamento |-> IF absoluteItem.equipamento = UNDEF THEN existingItem.equipamento
                      ELSE absoluteItem.equipamento,
      usuarioAtual |-> IF absoluteItem.usuarioAtual = UNDEF THEN existingItem.usuarioAtual
                       ELSE absoluteItem.usuarioAtual,
      emailColaborador |-> IF absoluteItem.emailColaborador = UNDEF
                           THEN existingItem.emailColaborador
                           ELSE absoluteItem.emailColaborador,
      status |-> IF absoluteItem.status = NoStatus THEN existingItem.status
                 ELSE absoluteItem.status ]

\* consolidatedMap.set(key, value) on the Map kept as the sequence of its
\* values in insertion order
RECURSIVE MapSet(_, _, _)
MapSet(map, item, merge) ==
    IF map = <<>> THEN <<item>>
    ELSE IF MergeKey(Head(map).serial) = MergeKey(item.serial)
         THEN <<IF merge THEN Spread(Head(map), item) ELSE item>> \o Tail(map)
         ELSE <<Head(map)>> \o MapSet(Tail(map), item, merge)

RECURSIVE MapSetAll(_, _, _)
MapSetAll(map, items, merge) ==
    IF items = <<>> THEN map
    ELSE MapSetAll(MapSet(map, Head(items), merge), Tail(items), merge)

\* item.usuarioAtual && item.usuarioAtual.trim() !== ''
NonBlank(v) == Truthy(v) /\ Trim(v.s) # <<>>

\* the .map callback of finalData, revision A: the status is set only for a
\* record that has a user
DeriveStatusA(item) ==
    IF NonBlank(item.usuarioAtual) THEN [item EXCEPT !.status = "Em Uso"] ELSE item

\* the .map callback of finalData, revision B
DeriveStatusB(item) ==
    IF NonBlank(item.usuarioAtual) THEN [item EXCEPT !.status = "Em Uso"]
    ELSE IF item.status \notin Protected
         THEN [item EXCEPT !.status = "Estoque", !.usuarioAtual = Str(<<>>),
                           !.emailColaborador = Str(<<>>)]
         ELSE item

\* the records before the status is derived: the Map of both files, or the
\* rows of the one file as they were parsed
FinalData(hasBase, hasAbsolute, baseData, absoluteData) ==
    LET items == IF hasBase /\ hasAbsolute
                 THEN MapSetAll(MapSetAll(<<>>, baseData, FALSE), absoluteData, TRUE)
                 ELSE IF hasBase THEN baseData
                 ELSE absoluteData
    IN  [ i \in DOMAIN items |->
            IF rev = "A" THEN DeriveStatusA(items[i]) ELSE DeriveStatusB(items[i]) ]

AlwaysSomeFile(base, absolute) == FALSE

\* !baseFile && !absoluteFile
NoFileChosen(base, absolute) == ~base.present /\ ~absolute.present

\* with no file chosen the handler reports the error and returns before it
\* touches isLoading or consolidatedData; a parseCsv that throws leaves the
\* dataset as setConsolidatedData([]) made it
Consolidate(baseChosen, absoluteChosen) ==
    \E base \in { IF baseChosen.present THEN ParseCsv(baseChosen.text, "base")
                  ELSE [ok |-> TRUE, data |-> <<>>] } :
    \E absolute \in { IF absoluteChosen.present /\ base.ok
                      THEN ParseCsv(absoluteChosen.text, "absolute")
                      ELSE [ok |-> TRUE, data |-> <<>>] } :
         LET parsed == (IF baseChosen.present THEN 1 ELSE 0)
                       + (IF absoluteChosen.present /\ base.ok THEN 1 ELSE 0)
             ok == base.ok /\ absolute.ok
         IN  IF NoFileChosen(baseChosen, absoluteChosen)
             THEN /\ screen' = [screen EXCEPT !.error = "validation", !.raised = FALSE,
                                              !.parsed = 0]
                  /\ last' = Request("consolidate", FALSE, <<baseChosen, absoluteChosen>>, 0, 0, 0)
                  /\ UNCHANGED consolidatedData
             ELSE /\ consolidatedData' =
                        IF ok THEN FinalData(baseChosen.present, absoluteChosen.present,
                                             Records(base.data), Records(absolute.data))
                        ELSE <<>>
                  /\ screen' = [ error |-> IF ok THEN "none" ELSE "parse",
                                 isLoading |-> FALSE, raised |-> TRUE, parsed |-> parsed ]
                  /\ last' = Request("consolidate", ok, <<baseChosen, absoluteChosen>>, 0, 0, 0)

\* the user chooses the files and clicks Consolidar Dados
HandleConsolidate ==
    /\ clock < MaxOps
    /\ \E baseChosen \in BaseFiles, absoluteChosen \in AbsoluteFiles :
         /\ baseFile' = baseChosen
         /\ absoluteFile' = absoluteChosen
         /\ Consolidate(baseChosen, absoluteChosen)
    /\ clock' = clock + 1
    /\ UNCHANGED <<rev, calls, equipment, history, config, nextId, nextHid, arg, result>>

\* onFileChange of the two FileUploadBox: setBaseFile / setAbsoluteFile and
\* nothing else
SetBaseFile ==
    /\ \E file \in BaseFiles : file # baseFile /\ baseFile' = file
    /\ UNCHANGED <<rev, absoluteFile, calls, equipment, history, config, nextId, nextHid,
                   clock, last, consolidatedData, arg, result, screen>>

SetAbsoluteFile ==
    /\ \E file \in AbsoluteFiles : file # absoluteFile /\ absoluteFile' = file
    /\ UNCHANGED <<rev, baseFile, calls, equipment, history, config, nextId, nextHid,
                   clock, last, consolidatedData, arg, result, screen>>

\* a click on Consolidar Dados with the files chosen before
ConsolidateChosen ==
    /\ clock < MaxOps
    /\ Consolidate(baseFile, absoluteFile)
    /\ clock' = clock + 1
    /\ UNCHANGED <<rev, baseFile, absoluteFile, calls, equipment, history, config, nextId,
                   nextHid, arg, result>>

\* handleSaveToSystem: it returns when the dataset is empty or the user
\* declines the confirmation; otherwise it posts the dataset to the import
\* endpoint.  After a successful save revision B reloads the page, and the
\* component starts again with an empty dataset.
HandleSaveToSystem ==
    /\ clock < MaxOps
    /\ \E confirmed \in BOOLEAN, failAt \in {"none", "delete", "timestamp", "flag"} :
         IF consolidatedData = <<>> \/ ~confirmed
         THEN /\ failAt = "none"
              /\ last' = Request("save", FALSE, <<>>, 0, 0, 0)
              /\ UNCHANGED <<equipment, history, config, nextId, consolidatedData, screen,
                             baseFile, absoluteFile>>
         ELSE /\ ImportRequest(consolidatedData, failAt)
              /\ IF last'.ok /\ rev = "B"
                 THEN /\ consolidatedData' = <<>> /\ screen' = NoScreen
                      /\ baseFile' = NoFile /\ absoluteFile' = NoFile
                 ELSE /\ screen' = [screen EXCEPT !.error = IF last'.ok THEN "none" ELSE "save"]
                      /\ UNCHANGED <<consolidatedData, baseFile, absoluteFile>>
    /\ clock' = clock + 1
    /\ UNCHANGED <<rev, calls, nextHid, arg, result>>


\* ------------------------------------ POST /api/equipment, statement by statement
\* SELECT id FROM equipment WHERE serial = ?
SerialFound(rows, s) == { r \in rows : SqlEq(r.serial, s) }

\* the request up to the serial check: it answers with the error when the
\* SELECT returns a row
BeginAdd ==
    /\ clock < MaxOps
    /\ \E c \in Callers, new \in NewRows :
         LET found == SerialFound(equipment, new.serial) IN
         /\ calls[c].pc # "read"
         /\ calls' = [calls EXCEPT ![c] =
                        [ pc |-> IF found = {} THEN "read" ELSE "done", op |-> "add",
                          input |-> <<new>>, snap |-> found, before |-> equipment,
                          ok |-> FALSE ]]
    /\ clock' = clock + 1
    /\ UNCHANGED <<rev, baseFile, absoluteFile, equipment, history, config, nextId, nextHid,
                   last, consolidatedData, arg, result, screen>>

\* the INSERT and the answer.  The UNIQUE index refuses a serial that another
\* request has inserted since the check (ER_DUP_ENTRY): the catch block
\* answers with the error and no row is written.
FinishAdd ==
    /\ \E c \in Callers :
         LET new == calls[c].input[1]
             dup == SerialTaken(equipment, new.serial)
         IN  /\ calls[c].pc = "read"
             /\ calls[c].op = "add"
             /\ equipment' =
                  IF dup THEN equipment
                  ELSE equipment \cup
                         { [ id |-> nextId, serial |-> new.serial,
                             equipamento |-> new.equipamento,
                             usuarioAtual |-> new.usuarioAtual, status |-> new.status,
                             approval_status |-> "approved", created_by_id |-> ActingUser ] }
             /\ nextId' = IF dup THEN nextId ELSE nextId + 1
             /\ calls' = [calls EXCEPT ![c].pc = "done", ![c].ok = ~dup,
                                       ![c].before = equipment]
    /\ UNCHANGED <<rev, baseFile, absoluteFile, history, config, nextHid, clock, last,
                   consolidatedData, arg, result, screen>>

\* add-equipment requests of two clients, one after the other or interleaved
AddSpec == Init /\ [][BeginAdd \/ FinishAdd]_vars

\* ------------------- POST /api/equipment/periodic-update, two requests at a time
\* the record each of the two requests carries: the serial of the one row of
\* the table, a name of the device and a user
ConcurrentItems ==
    [ serial : {SerialUpper},
      equipamento : {Str(<<"p">>), Str(<<"q">>)},
      usuarioAtual : {Str(<<>>), Str(<<"b">>)} ]

\* the row an add request left in the table
SeedRows ==
    [ id : {1}, serial : {SerialUpper},
      equipamento : {Str(<<"p">>), Str(<<"q">>)},
      usuarioAtual : {Str(<<>>), Str(<<"b">>)},
      status : Statuses,
      approval_status : {"approved"}, created_by_id : {ActingUser} ]

\* the state after one add request
ConcurrentInit ==
    /\ rev \in {"A", "B"}
    /\ equipment \in { {row} : row \in SeedRows }
    /\ history = {}
    /\ config = [flag |-> "false", ts |-> 0]
    /\ nextId = 2
    /\ nextHid = 1
    /\ clock = 1
    /\ last = NoRequest
    /\ consolidatedData = <<>>
    /\ arg = <<>>
    /\ result = <<>>
    /\ screen = NoScreen
    /\ baseFile = NoFile
    /\ absoluteFile = NoFile
    /\ calls = NoCalls

\* a request that reads the table again when it comes to write
ReadCurrent(snap, rows) == rows

\* the rows a request compares its record with: those its SELECT returned.
\* Revision A selects the whole table once, before the loop; revision B
\* selects the row by serial inside its transaction, whose first SELECT
\* fixes what the later ones see (REPEATABLE READ).
ReadView(snap, rows) == snap

\* beginTransaction and the SELECT
BeginPeriodic ==
    /\ \E c \in Callers, item \in ConcurrentItems :
         /\ calls[c].pc = "idle"
         /\ calls' = [calls EXCEPT ![c] =
                        [ pc |-> "read", op |-> "periodic", input |-> <<item>>,
                          snap |-> equipment, before |-> {}, ok |-> FALSE ]]
    /\ UNCHANGED <<rev, baseFile, absoluteFile, equipment, history, config, nextId, nextHid,
                   clock, last, consolidatedData, arg, result, screen>>

\* UPDATE equipment SET ?, status = ? WHERE id = ?  on the row as it is now:
\* updateFields holds the fields that differ from the row that was read
WriteB(item, r, row, newStatus) ==
    [ row EXCEPT
        !.equipamento = IF DiffersB(item.equipamento, r.equipamento)
                        THEN DbVal(item.equipamento) ELSE @,
        !.usuarioAtual = IF DiffersB(item.usuarioAtual, r.usuarioAtual)
                         THEN DbVal(item.usuarioAtual) ELSE @,
        !.status = newStatus ]

\* the loop of revision B for the one record of the request, reading from view
RunViewB(item, view, username, histDown, acc) ==
    LET found == ExistingB(view, item.serial)
        newStatus == NewStatusB(item, found)
    IN  IF found # {}
        THEN LET r == CHOOSE x \in found : TRUE
                 changes == ChangesB(item, r, newStatus)
             IN  IF changes = <<>> THEN acc
                 ELSE IF UpdateFailsB(item, r)
                 THEN [acc EXCEPT !.err = TRUE, !.planned = @ + Len(changes)]
                 ELSE RecordHistory(
                        [ acc EXCEPT
                            !.eq = { IF row.id = r.id THEN WriteB(item, r, row, newStatus)
                                     ELSE row : row \in acc.eq },
                            !.nU = @ + 1,
                            !.planned = @ + Len(changes) ],
                        changes, histDown)
        ELSE IF item.equipamento = UNDEF \/ SerialTaken(acc.eq, item.serial)
             THEN [acc EXCEPT !.err = TRUE]
             ELSE RecordHistory(
                    [ acc EXCEPT
                        !.eq = @ \cup
                               { [ id |-> acc.nid, serial |-> item.serial,
                                   equipamento |-> item.equipamento,
                                   usuarioAtual |-> DbVal(item.usuarioAtual),
                                   status |-> newStatus,
                                   approval_status |-> "approved",
                                   created_by_id |-> username ] },
                        !.nid = @ + 1,
                        !.nI = @ + 1,
                        !.planned = @ + 1 ],
                    <<Hist(acc.nid, "initial_import", Str(<<"N/A">>),
                           Str(<<"Imported via periodic update">>))>>,
                    histDown)

\* the writes of the request and its commit.  An UPDATE waits for the row
\* lock of the other transaction and then changes the row as that
\* transaction left it.
FinishPeriodic ==
    /\ \E c \in Callers, histDown \in BOOLEAN :
         LET view == ReadView(calls[c].snap, equipment)
             runA == RunA(calls[c].input, view,
                          [ eq |-> equipment, nid |-> nextId, err |-> FALSE,
                            nU |-> 0, nI |-> 0, hU |-> <<>>, hC |-> <<>> ])
             runB == RunViewB(calls[c].input[1], view, ActingUser, histDown,
                              [ eq |-> equipment, nid |-> nextId, err |-> FALSE,
                                nU |-> 0, nI |-> 0, planned |-> 0,
                                hist |-> history, hid |-> nextHid ])
             ok == IF rev = "A" THEN ~runA.err ELSE ~runB.err
             entries == runA.hU \o runA.hC
         IN  /\ calls[c].pc = "read"
             /\ calls[c].op = "periodic"
             /\ rev = "A" => ~histDown
             /\ equipment' = IF ~ok THEN equipment
                             ELSE IF rev = "A" THEN runA.eq ELSE runB.eq
             /\ nextId' = IF ~ok THEN nextId
                          ELSE IF rev = "A" THEN runA.nid ELSE runB.nid
             /\ history' = IF rev = "B" THEN runB.hist
                           ELSE IF ok THEN StoreHistory(history, nextHid, entries)
                           ELSE history
             /\ nextHid' = IF rev = "B" THEN runB.hid
                           ELSE IF ok THEN nextHid + Len(entries)
                           ELSE nextHid
             /\ config' = IF ok THEN [config EXCEPT !.ts = clock + 1] ELSE config
             /\ calls' = [calls EXCEPT ![c].pc = "done", ![c].ok = ok,
                                       ![c].before = equipment]
    /\ UNCHANGED <<rev, baseFile, absoluteFile, clock, last, consolidatedData, arg, result,
                   screen>>

\* two periodic updates on one row, one after the other or interleaved
ConcurrentSpec == ConcurrentInit /\ [][BeginPeriodic \/ FinishPeriodic]_vars

Next ==
    \/ AddEquipment
    \/ PeriodicUpdateA
    \/ PeriodicUpdateB
    \/ ImportEquipment
    \/ UpdateEquipmentA
    \/ UpdateEquipmentB
    \/ DeleteEquipment
    \/ SaveSettings
    \/ ClearDatabase

Spec == Init /\ [][Next]_vars

\* the consolidation screen: consolidating works in the browser, saving
\* posts the dataset to the import endpoint
ConsolidationSpec == Init /\ [][HandleConsolidate \/ HandleSaveToSystem]_vars

\* the consolidation screen with the choice of a file as a step of its own
ScreenSpec ==
    Init /\ [][SetBaseFile \/ SetAbsoluteFile \/ ConsolidateChosen \/ HandleSaveToSystem]_vars

\* the requests that change one row at a time
UpdateSpec ==
    Init /\ [][AddEquipment \/ UpdateEquipmentA \/ UpdateEquipmentB \/ DeleteEquipment]_vars

\* the inventory requests that add rows and reconcile them
ReconcileSpec == Init /\ [][AddEquipment \/ PeriodicUpdateA \/ PeriodicUpdateB]_vars

\* ------------------------------------------------------------------ properties
\* the incoming records of the last periodic update whose serial is that of
\* row r under the merge key (upper case, spaces removed)
KeyMatches(r) ==
    { i \in DOMAIN last.list : MergeKey(last.list[i].serial) = MergeKey(r.serial) }

\* the incoming records the query of the server pairs with row r
SqlMatches(r) ==
    { i \in DOMAIN last.list : SqlEq(last.list[i].serial, r.serial) }

\* the history rows written since the last request started
NewHistory == history \ last.history

NewEntries(id, type) ==
    { h \in NewHistory : h.equipment_id = id /\ h.changeType = type }

\* C1: after a periodic update, failed or not, every row that was persisted
\* before it and whose serial is the serial of no incoming record is still
\* there with every field as it was, and no row at all has been deleted.
UnmatchedRecordsUntouched ==
    last.op = "periodic" =>
        /\ \A r \in last.equipment : KeyMatches(r) = {} => r \in equipment
        /\ \A r \in last.equipment : \E r2 \in equipment : r2.id = r.id

\* C1 witness: a successful periodic update that updated a matched row
\* while another persisted row had no incoming record
UnmatchedRecordsUntouchedWitness ==
    /\ last.op = "periodic"
    /\ last.ok
    /\ last.nUpdates > 0
    /\ equipment # last.equipment
    /\ \E r \in last.equipment : KeyMatches(r) = {}

\* C2: the second of two consecutive periodic updates with the same list
\* leaves the equipment table and the history table as they were, and when
\* it succeeds it issued no update and no insert.
SecondRunChangesNothing ==
    (last.op = "periodic" /\ last.repeat) =>
        /\ equipment = last.equipment
        /\ history = last.history
        /\ last.ok => (last.nUpdates = 0 /\ last.nInserts = 0)

\* C3: a periodic update that fails leaves no equipment row, no history
\* row and no timestamp behind, and one that succeeds has stored every
\* history entry it staged.
PeriodicUpdateAtomic ==
    last.op = "periodic" =>
        IF last.ok
        THEN Cardinality(NewHistory) = last.planned
        ELSE equipment = last.equipment /\ history = last.history /\ config = last.config

\* C4: an import that fails leaves the equipment rows, the history rows
\* and both markers as they were before it.
ImportAllOrNothing ==
    (last.op = "import" /\ ~last.ok) =>
        equipment = last.equipment /\ history = last.history /\ config = last.config

\* C5: a persisted row in status Manutenção, Descartado, Perdido or Doado
\* that a periodic update matches keeps its status, and no history entry
\* of type status is written for it.
ProtectedStatusPreserved ==
    last.op = "periodic" =>
        \A r \in last.equipment :
            (r.status \in Protected /\ SqlMatches(r) # {}) =>
                /\ \E r2 \in equipment : r2.id = r.id /\ r2.status = r.status
                /\ NewEntries(r.id, "status") = {}

\* C6: every record of the consolidated dataset is Em Uso when it has a
\* non-blank user; otherwise it is Estoque, or it kept its own status
\* Manutenção, Descartado, Perdido or Doado.
ConsolidatedStatusDerived ==
    \A i \in DOMAIN consolidatedData :
        IF NonBlank(consolidatedData[i].usuarioAtual)
        THEN consolidatedData[i].status = "Em Uso"
        ELSE consolidatedData[i].status \in {"Estoque"} \cup Protected

\* C7: after a successful periodic update a row whose status changed has a
\* new history entry of type status, and when the list had one record every
\* column whose value changed has exactly one new history entry.
OneHistoryEntryPerChangedField ==
    (last.op = "periodic" /\ last.ok) =>
        \A r \in last.equipment : \A r2 \in equipment :
            r2.id = r.id =>
                /\ r2.status # r.status => NewEntries(r.id, "status") # {}
                /\ Len(last.list) = 1 =>
                      \A f \in {"equipamento", "usuarioAtual", "status"} :
                          r2[f] # r[f] => Cardinality(NewEntries(r.id, f)) = 1

\* C8: when the stored usuarioAtual is NULL and the incoming one is the
\* empty string, or the other way round, neither the periodic update nor
\* the update of one record writes a history entry for usuarioAtual.
NullAndEmptyAreEqual ==
    /\ (last.op = "periodic" /\ Len(last.list) = 1) =>
          \A r \in last.equipment :
              (SqlMatches(r) # {} /\ r.usuarioAtual = NULL
                 /\ last.list[1].usuarioAtual = Str(<<>>)) =>
                  NewEntries(r.id, "usuarioAtual") = {}
    /\ last.op = "put" =>
          \A r \in last.equipment : \A r2 \in equipment :
              (r2.id = r.id /\ {r.usuarioAtual, r2.usuarioAtual} = {NULL, Str(<<>>)}) =>
                  NewEntries(r.id, "usuarioAtual") = {}

\* C9: a successful periodic update in which every incoming record has the
\* merge key of a persisted row inserts no row.
MatchedByMergeKey ==
    (last.op = "periodic" /\ last.ok
        /\ \A i \in DOMAIN last.list :
              \E r \in last.equipment : MergeKey(r.serial) = MergeKey(last.list[i].serial)) =>
        /\ last.nInserts = 0
        /\ Cardinality(equipment) = Cardinality(last.equipment)

\* C10: when a successful import has set hasInitialConsolidationRun to
\* true, the next request, whichever it is, leaves it true.
FlagNeverReset ==
    [][(last.op = "import" /\ last.ok /\ config.flag = "true") => config'.flag = "true"]_vars

\* C11: the consolidated dataset has at most one record for a merge key,
\* whether both files, only the base sheet or only the Absolute report was
\* given, and also when one file has rows whose serials differ only in
\* case or spaces.
OneRecordPerMergeKey ==
    \A i, j \in DOMAIN consolidatedData :
        MergeKey(consolidatedData[i].serial) = MergeKey(consolidatedData[j].serial) => i = j

\* the records parseCsv returns for a file of the last consolidation
ParsedRecords(file, kind) ==
    IF file.present THEN Records(ParseCsv(file.text, kind).data) ELSE <<>>

\* C12: after a consolidation of both files, for a base record and the
\* last Absolute record of the same merge key the dataset has one record
\* of that key; it has the serial of the Absolute record and, for every
\* other field the Absolute record has, the value of the Absolute record.
AbsoluteWins ==
    (last.op = "consolidate" /\ last.ok /\ last.list[1].present /\ last.list[2].present) =>
        LET baseData == ParsedRecords(last.list[1], "base")
            absoluteData == ParsedRecords(last.list[2], "absolute")
        IN  \A b \in DOMAIN baseData, a \in DOMAIN absoluteData :
              ( /\ MergeKey(baseData[b].serial) = MergeKey(absoluteData[a].serial)
                /\ \A a2 \in DOMAIN absoluteData :
                     a2 > a => MergeKey(absoluteData[a2].serial) # MergeKey(absoluteData[a].serial) )
              => /\ Cardinality({ i \in DOMAIN consolidatedData :
                        MergeKey(consolidatedData[i].serial) = MergeKey(absoluteData[a].serial) }) = 1
                 /\ \A i \in DOMAIN consolidatedData :
                      MergeKey(consolidatedData[i].serial) = MergeKey(absoluteData[a].serial) =>
                          /\ consolidatedData[i].serial = absoluteData[a].serial
                          /\ \A f \in {"equipamento", "usuarioAtual", "emailColaborador"} :
                               absoluteData[a][f] # UNDEF =>
                                   consolidatedData[i][f] = absoluteData[a][f]

\* the number of lines of a text that are not blank
NonEmptyLines(text) ==
    Cardinality({ i \in DOMAIN SplitLines(text, <<>>) : Trim(SplitLines(text, <<>>)[i]) # <<>> })

TooFewLines(file) == file.present /\ NonEmptyLines(file.text) < 2

\* a consolidation was the last thing done, and a file it was given has
\* fewer than two non-empty lines
ShortFileConsolidated ==
    last.op = "consolidate" /\ (TooFewLines(last.list[1]) \/ TooFewLines(last.list[2]))

\* C16: a consolidation of a file with fewer than two non-empty lines
\* fails with the parse error and leaves the dataset empty, and a save
\* that follows it sends no request and changes nothing that is persisted.
ShortFileRejected ==
    /\ [](ShortFileConsolidated =>
            (~last.ok /\ screen.error = "parse" /\ consolidatedData = <<>>))
    /\ [][ (ShortFileConsolidated /\ last'.op # "consolidate") =>
             (last'.op = "save" /\ UNCHANGED <<equipment, history, config, nextId>>) ]_vars

\* C16 witness: the save that followed the failed parse returned at once
ShortFileRejectedWitness ==
    /\ last.op = "save"
    /\ screen.error = "parse"
    /\ consolidatedData = <<>>
    /\ equipment = {}

\* C17: a consolidation with no file chosen sets the validation error and
\* nothing else: parseCsv is not called, isLoading is not raised, and the
\* dataset and everything persisted stay as they were.
NoFileDoesNothing ==
    [][ (last'.op = "consolidate" /\ last'.list = <<NoFile, NoFile>>) =>
          /\ screen'.error = "validation"
          /\ ~screen'.raised
          /\ screen'.parsed = 0
          /\ screen'.isLoading = screen.isLoading
          /\ consolidatedData' = consolidatedData
          /\ UNCHANGED <<equipment, history, config, nextId>> ]_vars

\* C17 witness: no file was chosen, and the dataset of the consolidation
\* before is still there
NoFileDoesNothingWitness ==
    /\ last.op = "consolidate"
    /\ ~last.list[1].present /\ ~last.list[2].present
    /\ screen.error = "validation"
    /\ consolidatedData # <<>>

\* the rows of the store that were not there when the last request started
NewRowsOf(serial) ==
    { r \in equipment : r.serial = serial /\ \A r0 \in last.equipment : r0.id # r.id }

\* the status the spec derives for a record: Em Uso with a non-blank user,
\* Estoque otherwise
DerivedStatus(item) ==
    IF NonBlank(item.usuarioAtual) THEN "Em Uso" ELSE "Estoque"

\* C18: after a successful periodic update of one record whose merge key no
\* persisted row had, the store has one new row with the serial and the
\* fields of the record, the derived status, approval_status approved and
\* created_by_id the user who sent the request, and the history has
\* exactly one new entry for the id of that row.
InsertForUnmatched ==
    ( /\ last.op = "periodic" /\ last.ok /\ Len(last.list) = 1
      /\ \A r0 \in last.equipment : MergeKey(r0.serial) # MergeKey(last.list[1].serial) )
    => LET item == last.list[1] IN
       /\ Cardinality(NewRowsOf(item.serial)) = 1
       /\ \A r \in NewRowsOf(item.serial) :
            /\ r.equipamento = item.equipamento
            /\ r.usuarioAtual = DbVal(item.usuarioAtual)
            /\ r.status = DerivedStatus(item)
            /\ r.approval_status = "approved"
            /\ r.created_by_id = last.username
            /\ Cardinality({ h \in NewHistory : h.equipment_id = r.id }) = 1

\* C19: after a successful periodic update of one record, a column the
\* record does not carry has, on the row the record was matched with, the
\* value it had before, and the history has no new entry for that column.
AbsentFieldsKept ==
    (last.op = "periodic" /\ last.ok /\ Len(last.list) = 1) =>
        \A r0 \in last.equipment :
            SqlMatches(r0) # {} =>
                \A f \in {"equipamento", "usuarioAtual"} :
                    last.list[1][f] = UNDEF =>
                        /\ \E r \in equipment : r.id = r0.id /\ r[f] = r0[f]
                        /\ NewEntries(r0.id, f) = {}

\* the rows of a set that have the merge key of a serial
RowsOfKey(rows, serial) == { r \in rows : MergeKey(r.serial) = MergeKey(serial) }

\* C20: a periodic update of two records with the same merge key, with no
\* failure of the database, succeeds; after it the store has exactly one
\* row of that key, with the fields of the second record.  The store had
\* one row of that key before, or none.
DuplicateRowsLastWins ==
    ( /\ last.op = "periodic" /\ ~last.fault /\ Len(last.list) = 2
      /\ MergeKey(last.list[1].serial) = MergeKey(last.list[2].serial)
      /\ Cardinality(RowsOfKey(last.equipment, last.list[2].serial)) <= 1 )
    => /\ last.ok
       /\ Cardinality(RowsOfKey(equipment, last.list[2].serial)) = 1
       /\ \A r \in RowsOfKey(equipment, last.list[2].serial) :
            /\ r.equipamento = DbVal(last.list[2].equipamento)
            /\ r.usuarioAtual = DbVal(last.list[2].usuarioAtual)
            /\ r.status = DerivedStatus(last.list[2])

\* the fields the header of a text maps under the mapping table of a kind
MappedFields(text, kind) ==
    LET header == Header(SplitLines(Trim(text), <<>>)[1]) IN
    { MappedKey(Mappings(kind), header[i]) : i \in DOMAIN header } \ {"none"}

\* C23: every record the parser returns has every field a header column
\* maps, also for a line that ends before that column; there the field
\* holds the empty string.
ShortRowFieldsEmpty ==
    (last.op = "parseCsv" /\ result.ok) =>
        \A i \in DOMAIN result.data :
            \A f \in MappedFields(arg, last.list[1]) : result.data[i][f] # UNDEF

\* upper case, white space and slashes removed
Normalised(s) == RemoveSpaceSlash(ToUpper(s))

\* the keys of the mapping table of the last lookup that have the
\* normalised form of the header cell
KeysLike(cell) ==
    { key \in DOMAIN Mappings(last.list[1]) : Normalised(key) = Normalised(cell) }

\* C22: a header cell is mapped exactly when its normalised form is the
\* normalised form of a key of the mapping table, and then to the field
\* of that key.
OneNormalisation ==
    last.op = "lookup" =>
        /\ result # "none" <=> KeysLike(arg) # {}
        /\ \A key \in KeysLike(arg) : result = Mappings(last.list[1])[key]

\* a record has the field: the key is there (status: the record has one)
Defines(record, f) == IF f = "status" THEN record.status # NoStatus ELSE record[f] # UNDEF

\* after a consolidation of both files: every field of fields that the
\* last base record of a merge key defines and no Absolute record of that
\* key carries has the value of the base record in the output record of
\* that key
BaseValuesKept(fields) ==
    (last.op = "consolidate" /\ last.ok /\ last.list[1].present /\ last.list[2].present) =>
        LET baseData == ParsedRecords(last.list[1], "base")
            absoluteData == ParsedRecords(last.list[2], "absolute")
        IN  \A b \in DOMAIN baseData :
              LET key == MergeKey(baseData[b].serial)
                  over == { a \in DOMAIN absoluteData : MergeKey(absoluteData[a].serial) = key }
              IN  ( /\ over # {}
                    /\ \A b2 \in DOMAIN baseData :
                         b2 > b => MergeKey(baseData[b2].serial) # key )
                  => \A f \in fields :
                       ( /\ Defines(baseData[b], f)
                         /\ \A a \in over : ~Defines(absoluteData[a], f) )
                       => \E i \in DOMAIN consolidatedData :
                            /\ MergeKey(consolidatedData[i].serial) = key
                            /\ consolidatedData[i][f] = baseData[b][f]

TimestampOnSuccessOnly ==
    last.op \in {"import", "periodic"} =>
        /\ last.ok => config.ts = clock
        /\ ~last.ok => config.ts = last.config.ts

ParseOfChosen ==
    LET base == IF baseFile.present THEN ParseCsv(baseFile.text, "base")
                ELSE [ok |-> TRUE, data |-> <<>>]
        absolute == IF absoluteFile.present THEN ParseCsv(absoluteFile.text, "absolute")
                    ELSE [ok |-> TRUE, data |-> <<>>]
    IN  IF base.ok /\ absolute.ok
        THEN FinalData(baseFile.present, absoluteFile.present,
                       Records(base.data), Records(absolute.data))
        ELSE <<>>

\* C30: the dataset a save posts to the server is the consolidation of the
\* files that are chosen in the screen at the moment of the save; a preview
\* made from files chosen earlier cannot be saved.
SavedIsParseOfChosen ==
    [][ (clock' # clock /\ last'.op = "import") => last'.list = ParseOfChosen ]_vars

\* C26: a request to add one equipment whose serial is the serial of a
\* persisted row answers with an error and inserts nothing, and after any
\* sequence or interleaving of such requests no two persisted rows have the
\* same serial.
SerialsStayUnique ==
    /\ [](\A r1, r2 \in equipment : r1.serial = r2.serial => r1 = r2)
    /\ [][ \A c \in Callers :
             ( /\ calls[c].pc # "done"
               /\ calls'[c].pc = "done"
               /\ \E r \in equipment : r.serial = calls'[c].input[1].serial )
             => (~calls'[c].ok /\ equipment' = equipment) ]_vars

\* two requests with the same serial passed the serial check before either
\* inserted; one inserted its row, the other got the error from the index
SerialsStayUniqueWitness ==
    \E c, d \in Callers :
        /\ calls[c].pc = "done" /\ calls[c].ok
        /\ calls[d].pc = "done" /\ ~calls[d].ok /\ calls[d].snap = {}
        /\ calls[d].input[1].serial = calls[c].input[1].serial
        /\ Cardinality(equipment) = 1

\* the table after a periodic update with the record item ran alone on rows
Alone(rows, item) ==
    LET runA == RunA(<<item>>, rows,
                     [ eq |-> rows, nid |-> 2, err |-> FALSE,
                       nU |-> 0, nI |-> 0, hU |-> <<>>, hC |-> <<>> ])
        runB == RunB(<<item>>, ActingUser, FALSE,
                     [ eq |-> rows, nid |-> 2, err |-> FALSE,
                       nU |-> 0, nI |-> 0, planned |-> 0, hist |-> {}, hid |-> 1 ])
    IN  IF rev = "A" THEN (IF runA.err THEN rows ELSE runA.eq)
        ELSE (IF runB.err THEN rows ELSE runB.eq)

\* C27: a periodic update compares its record with the row it read when it
\* started and writes the fields that differ from that row and no other: a
\* field it changes is a field in which its record differs from the row read,
\* whatever another update has committed in between.  (This is what lets two
\* updates of one serial end in a row neither order of the two produces.)
WritesDiffOfSnapshot ==
    [][ \A c \in Callers :
          (calls[c].pc = "read" /\ calls'[c].pc = "done" /\ calls'[c].ok) =>
            \A r \in equipment : \A w \in equipment' : \A s \in calls[c].snap :
              (w.id = r.id /\ s.id = r.id) =>
                LET item == calls[c].input[1] IN
                /\ w.usuarioAtual # r.usuarioAtual =>
                       IF rev = "A" THEN DiffersA(item.usuarioAtual, s.usuarioAtual)
                       ELSE DiffersB(item.usuarioAtual, s.usuarioAtual)
                /\ (rev = "B" /\ w.equipamento # r.equipamento) =>
                       DiffersB(item.equipamento, s.equipamento)
                /\ (rev = "B" /\ DiffersB(item.usuarioAtual, s.usuarioAtual)) =>
                       w.usuarioAtual = item.usuarioAtual ]_vars

\* a lost update: both requests read the same table, both answered with
\* success, and the row is the row of neither order of the two
LostUpdate ==
    /\ calls[1].pc = "done" /\ calls[1].ok
    /\ calls[2].pc = "done" /\ calls[2].ok
    /\ calls[1].snap = calls[2].snap
    /\ LET rows == calls[1].snap
           one == calls[1].input[1]
           two == calls[2].input[1]
       IN  /\ equipment # Alone(Alone(rows, one), two)
           /\ equipment # Alone(Alone(rows, two), one)

\* C28: once an initial consolidation has been saved (hasInitialConsolidationRun
\* is true), no request replaces the inventory through the import again: an
\* import request that arrives then leaves the equipment table as it was.
FullReplaceDisabled ==
    (last.op = "import" /\ last.config.flag = "true") => equipment = last.equipment

\* C29: the history of an equipment row that stays is only added to.  A
\* history row that was there before a request is there, unchanged, after
\* it, unless the request removed the equipment it belongs to: the deletion
\* of that equipment, or the import and the reset, which empty both tables.
HistoryAppendOnly ==
    \A h \in last.history \ history :
        \/ last.op \in {"import", "clear"} /\ history = {}
        \/ last.op = "delete" /\ \A r \in equipment : r.id # h.equipment_id

\* an update of a row that already had history: the old rows are all there
\* and there are new ones
HistoryAppendOnlyWitness ==
    /\ last.op \in {"put", "periodic"}
    /\ last.history # {}
    /\ last.history \subseteq history
    /\ history # last.history
    /\ \E h \in last.history : \E g \in history \ last.history :
           g.equipment_id = h.equipment_id

====
